---- MODULE Spec2Model ----
(***************************************************************************)
(* Spatial Memory Streaming prefetcher (src/prefetcher/sms.c).             *)
(*                                                                         *)
(* The three SMS tables (Filter Table, Accumulation Table, Pattern History *)
(* Table) are set-associative caches of the simulator's cache library.  A  *)
(* table is modelled as the set of its valid entries; an entry records the *)
(* set and way it occupies, its tag, its base address, its data (the       *)
(* access pattern, a 64-bit map kept as a natural number) and its          *)
(* last_access_time.  The L1 data cache is the set of line addresses it    *)
(* holds; which line it evicts on an install is the host's choice.         *)
(***************************************************************************)
EXTENDS Integers, Sequences, FiniteSets, TLC

(* ----------------------------------------------------------------------- *)
(* Program constants                                                       *)
(* ----------------------------------------------------------------------- *)
RegionSize == 2048
NumEntries == 16384
Assoc == 4
DcacheLineSize == 64
PatternBits == 64

(* ----------------------------------------------------------------------- *)
(* Bounds of the model                                                     *)
(* ----------------------------------------------------------------------- *)
NumRegions == 2
NumLines == 3
MaxTime == 1
DcacheCap == 2
MaxCalls == 4

NumSets == NumEntries \div Assoc

Ways == 0 .. (Assoc - 1)

(* ----------------------------------------------------------------------- *)
(* Inputs of the host: the first NumLines lines of the first region, and   *)
(* the first line of NumRegions regions that all map to the same table set. *)
(* ----------------------------------------------------------------------- *)
FirstRegion == 2 * RegionSize

RegionBases == { FirstRegion + r * (NumSets * RegionSize) : r \in 0 .. (NumRegions - 1) }

Addrs == { FirstRegion + l * DcacheLineSize : l \in 0 .. (NumLines - 1) } \cup RegionBases

(* The lines the host fills into the data cache: the first line of each    *)
(* region.                                                                 *)
DcacheLines == { b - (b % DcacheLineSize) : b \in RegionBases }

(* Lines the data cache may hold when the first call arrives: the first    *)
(* line of the first region and a line of a region the program does not    *)
(* access.                                                                 *)
HostLines == { FirstRegion, 12 * DcacheLineSize }

(* ----------------------------------------------------------------------- *)
(* 64-bit words as naturals                                                *)
(* ----------------------------------------------------------------------- *)
(* Every value of the model is below 2^30, so the bits of a 64-bit word    *)
(* from bit 30 upwards are zero.                                           *)
Bit(x, i) == IF i >= 30 THEN FALSE ELSE (x \div (2 ^ i)) % 2 = 1

BitsOf(x) == { i \in 0 .. (PatternBits - 1) : Bit(x, i) }

RECURSIVE BitOr(_, _)
BitOr(a, b) ==
    IF a = 0 THEN b
    ELSE IF b = 0 THEN a
    ELSE (IF a % 2 = 1 \/ b % 2 = 1 THEN 1 ELSE 0) + 2 * BitOr(a \div 2, b \div 2)

PopCount(x) == Cardinality(BitsOf(x))

(* The line of the data cache that holds addr. *)
DcacheLine(addr) == addr - (addr % DcacheLineSize)

(* ----------------------------------------------------------------------- *)
(* The cache library, as sms.c uses it for FT, AT and PHT                  *)
(* ----------------------------------------------------------------------- *)

(* cache_index with tag_incl_offset = FALSE: shift_bits = log2(RegionSize), *)
(* set_mask = NumSets - 1, tag_mask = ~set_mask, offset_mask = RegionSize-1 *)
cache_index(addr) ==
    [ set       |-> (addr \div RegionSize) % NumSets,
      tag       |-> (addr \div RegionSize) - ((addr \div RegionSize) % NumSets),
      line_addr |-> addr - (addr % RegionSize) ]

(* The entries of the cache that a lookup of addr matches: valid, in the   *)
(* set of addr, with the tag of addr.                                      *)
Matching(cache, addr) ==
    { e \in cache : e.set = cache_index(addr).set /\ e.tag = cache_index(addr).tag }

LowestWay(entries) == CHOOSE e \in entries : \A f \in entries : e.way <= f.way

(* cache_access: the first matching way is the hit; with update_repl its   *)
(* last_access_time becomes the current time.                              *)
cache_access(cache, addr, update_repl, now) ==
    LET hits == Matching(cache, addr)
    IN  IF hits = {}
        THEN [ hit |-> FALSE, data |-> 0, cache |-> cache ]
        ELSE LET line == LowestWay(hits)
             IN  [ hit   |-> TRUE,
                   data  |-> line.data,
                   cache |-> IF update_repl
                             THEN (cache \ {line}) \cup { [line EXCEPT !.time = now] }
                             ELSE cache ]

(* find_repl_entry under LRU: the lowest invalid way when there is one,    *)
(* else the way with the smallest last_access_time, lowest way first.      *)
find_repl_entry(cache, set) ==
    LET used == { e \in cache : e.set = set }
        free == { w \in Ways : \A e \in used : e.way # w }
    IN  IF free # {}
        THEN [ way |-> CHOOSE w \in free : \A v \in free : w <= v, valid |-> FALSE, base |-> 0 ]
        ELSE LET victim == CHOOSE e \in used :
                               \A f \in used : e.time < f.time \/ (e.time = f.time /\ e.way <= f.way)
             IN  [ way |-> victim.way, valid |-> TRUE, base |-> victim.base ]

(* cache_insert: no lookup of the tag; the replacement way is overwritten. *)
(* repl_line_addr is the base address of the valid line replaced, else 0.  *)
(* The caller stores the data right after the call, so the entry is built  *)
(* with the data the caller stores.                                        *)
cache_insert(cache, addr, data, now) ==
    LET ix   == cache_index(addr)
        repl == find_repl_entry(cache, ix.set)
        kept == { e \in cache : ~(e.set = ix.set /\ e.way = repl.way) }
        new_line == [ set |-> ix.set, way |-> repl.way, tag |-> ix.tag,
                      base |-> ix.line_addr, data |-> data, time |-> now ]
    IN  [ cache          |-> kept \cup {new_line},
          repl_line_addr |-> IF repl.valid THEN repl.base ELSE 0,
          evicted        |-> { e \in cache : e.set = ix.set /\ e.way = repl.way } ]

(* cache_invalidate: every valid line of the set with the tag is cleared.  *)
cache_invalidate(cache, addr) == cache \ Matching(cache, addr)

(* ----------------------------------------------------------------------- *)
(* State of one SMS instance, of the data cache and of the simulator clock *)
(* ----------------------------------------------------------------------- *)
VARIABLES
    filter_table,           \* valid entries of sms->filter_table
    accumulation_table,     \* valid entries of sms->accumulation_table
    pattern_history_table,  \* valid entries of sms->pattern_history_table
    dcache,                 \* line addresses held by dcache_stage->dcache
    sim_time,               \* the simulator's clock, read by the cache library
    rec,                    \* history: for a region key, the pattern last transferred to the PHT
                            \* while no PHT entry of that key has been replaced since
    ev,                     \* history: what the last call of the host did
    calls,                  \* history: how many calls the host has made
    gen                     \* history: for a region key whose generation is open, the bit of
                            \* the trigger access and the union of the patterns the AT has
                            \* held for it in this generation

vars == << filter_table, accumulation_table, pattern_history_table, dcache, sim_time, rec, ev, calls, gen >>

(* The record the operations of sms.c work on: the tables by name, the     *)
(* data cache, the clock and the two history fields.                       *)
NoEvent(op, addr, repl) ==
    [ op       |-> op,        \* "init", "tick", "access" or "insert"
      addr     |-> addr,      \* line_addr of the call
      repl     |-> repl,      \* repl_line_addr of the call
      agt      |-> FALSE,     \* sms_dcache_access found the region in FT or AT
      promoted |-> FALSE,     \* filter_table_update transferred the entry to the AT
      updated  |-> FALSE,     \* accumulation_table_access rewrote the AT entry
      lookup   |-> FALSE,     \* pattern_history_table_access ran
      pred     |-> 0,         \* the merged pattern it computed
      installs |-> << >>,     \* lines installed in the dcache by the stream, in order; with
                              \* each, whether the region of the stream was in the FT or
                              \* the AT when sms_dcache_insert was called for the line
      recorded |-> << >>,     \* patterns transferred to the PHT, in order; with each,
                              \* whether the AT held the pattern when the PHT was written
      inserts  |-> << >>,     \* the calls of table_insert, in order: the table, the
                              \* pattern stored, the patterns of the entries replaced and
                              \* the value returned
      counted  |-> << >>,     \* the eviction event each of the three insert functions
                              \* counted for the value table_insert returned, in order
      notified |-> << >>,     \* the arguments of the calls of sms_dcache_insert, in order
      agt_hit   |-> 0,        \* SMS_DCACHE_ACCESS_ENTRY_IN_AGT events counted
      agt_miss  |-> 0,        \* SMS_DCACHE_ACCESS_ENTRY_NOT_IN_AGT events counted
      ft_insert |-> 0 ]       \* FILTER_TABLE_INSERT events counted

(* ----------------------------------------------------------------------- *)
(* Helper functions of sms.c                                               *)
(* ----------------------------------------------------------------------- *)

(* offset_mask of the tables is RegionSize - 1 *)
get_table_index(line_addr) == line_addr - (line_addr % RegionSize)

(* line_address_access_pattern for a data cache of the given line size:    *)
(* the outcomes of a call. An outcome is the set of bits of the 64-bit     *)
(* pattern returned, whether the event                                     *)
(* ACCESS_PATTERN_BLOCK_INDEX_OVER_SPATIAL_PATTERN_LIMIT was counted, and  *)
(* the shift amount of 1ULL << block_index when the shift was executed     *)
(* (else -1). A shift of a 64-bit word by 64 or more is undefined: the     *)
(* word is shifted by the amount modulo 64, or the result is 0.            *)
line_address_access_pattern_at(line_addr, cache_line_size) ==
    LET spatial_region_size == RegionSize
        access_pattern_upper_limit == spatial_region_size \div cache_line_size
        line_addr_offset_bits == line_addr % RegionSize
        block_index == line_addr_offset_bits \div cache_line_size
    IN  IF block_index < access_pattern_upper_limit
        THEN IF block_index < PatternBits
             THEN { [ bits |-> { block_index }, over_limit |-> FALSE, shift |-> block_index ] }
             ELSE { [ bits |-> { block_index % PatternBits }, over_limit |-> FALSE,
                      shift |-> block_index ],
                    [ bits |-> {}, over_limit |-> FALSE, shift |-> block_index ] }
        ELSE { [ bits |-> {}, over_limit |-> TRUE, shift |-> -1 ] }

(* Variant: the block index is returned as a number, not as a bit map. *)
line_address_access_pattern_index(line_addr) ==
    LET line_addr_offset_bits == line_addr % RegionSize
        block_index == line_addr_offset_bits \div DcacheLineSize
    IN  IF block_index < RegionSize \div DcacheLineSize THEN block_index ELSE 0

line_address_access_pattern(line_addr) ==
    LET spatial_region_size == RegionSize
        cache_line_size == DcacheLineSize
        access_pattern_upper_limit == spatial_region_size \div cache_line_size
        line_addr_offset_bits == line_addr % RegionSize
        block_index == line_addr_offset_bits \div cache_line_size
    IN  IF block_index < access_pattern_upper_limit THEN 2 ^ block_index ELSE 0

(* Variant: the lookup does not update the replacement state. *)
table_check_no_update(s, t, table_index) ==
    LET r == cache_access(s[t], table_index, FALSE, s.now)
    IN  [ s |-> [s EXCEPT ![t] = r.cache], found |-> r.hit, data |-> r.data ]

(* table_check on one of the three tables: cache_access with update_repl.  *)
table_check(s, t, table_index) ==
    LET r == cache_access(s[t], table_index, TRUE, s.now)
    IN  [ s |-> [s EXCEPT ![t] = r.cache], found |-> r.hit, data |-> r.data ]

(* table_check on the data cache: is the line of table_index present.      *)
dcache_table_check(s, table_index) == DcacheLine(table_index) \in s.dc

(* Variant: the pattern is not stored in the line that was allocated. *)
table_insert_nodata(s, t, table_index, memory_region_access_pattern, line_addr) ==
    LET r == cache_insert(s[t], table_index, 0, s.now)
    IN  [ s |-> [s EXCEPT ![t] = r.cache], ret_val |-> 2, evicted |-> r.evicted ]

(* The fifth argument of cache_insert receives the address of the line    *)
(* replaced, as in the call for the data cache in                          *)
(* sms_stream_blocks_to_data_cache.                                        *)
table_insert(s, t, table_index, memory_region_access_pattern, line_addr) ==
    CHOOSE result \in
        UNION { { LET evicted_entry_access_pattern == r.repl_line_addr
                      ret_val == IF evicted_entry_access_pattern # 0
                                 THEN (IF memory_region_access_pattern
                                            = evicted_entry_access_pattern
                                       THEN 1 ELSE 0)
                                 ELSE 2
                  IN  [ s       |-> [ sms EXCEPT
                                        ![t] = r.cache,
                                        !.ev.inserts =
                                            Append(@, [ table   |-> t,
                                                        pattern |-> memory_region_access_pattern,
                                                        evicted |-> { e.data : e \in r.evicted },
                                                        ret_val |-> ret_val ]) ],
                        ret_val |-> ret_val,
                        evicted |-> r.evicted ]
                  : r \in { cache_insert(sms[t], table_index,
                                         memory_region_access_pattern, sms.now) } }
                : sms \in { s } } : TRUE

table_invalidate(s, t, table_index) ==
    [s EXCEPT ![t] = cache_invalidate(s[t], table_index)]

filter_table_check(s, table_index) ==
    LET c == table_check(s, "ft", table_index)
    IN  [ s |-> c.s, flag |-> c.found ]

accumulation_table_check(s, table_index) ==
    LET c == table_check(s, "at", table_index)
    IN  [ s |-> c.s, flag |-> c.found ]

(* Variant: only the Accumulation Table is looked up. *)
active_generation_table_check_at_only(s, line_addr) ==
    LET table_index == get_table_index(line_addr)
        a == accumulation_table_check(s, table_index)
    IN  [ s |-> a.s, flag |-> a.flag ]

active_generation_table_check(s, line_addr) ==
    LET table_index == get_table_index(line_addr)
        a == accumulation_table_check(s, table_index)
        f == filter_table_check(a.s, table_index)
    IN  [ s |-> f.s, flag |-> a.flag \/ f.flag ]

(* ----------------------------------------------------------------------- *)
(* Pattern History Table: insert                                           *)
(* ----------------------------------------------------------------------- *)
pattern_history_table_insert(s, table_index, memory_region_access_pattern, line_addr) ==
    CHOOSE result \in
      { LET flag == r.ret_val
            replaced == { e.base : e \in r.evicted }
        IN  [ r.s EXCEPT
                !.ev.counted = Append(@, [ table |-> "pht", flag |-> flag,
                                           event |-> IF flag = 0 THEN "different"
                                                     ELSE IF flag = 1 THEN "same"
                                                     ELSE "different" ]),
                !.rec = { x \in @ : x.key \notin replaced /\ x.key # table_index }
                        \cup { [ key |-> table_index, pat |-> memory_region_access_pattern ] },
                !.ev.recorded = Append(@, [ key  |-> table_index,
                                            pat  |-> memory_region_access_pattern,
                                            held |-> \E e \in Matching(r.s.at, table_index) :
                                                        e.data = memory_region_access_pattern ]) ]
        : r \in { table_insert(s, "pht", table_index, memory_region_access_pattern,
                               line_addr) } } : TRUE

(* ----------------------------------------------------------------------- *)
(* Active Generation Table: delete                                         *)
(* ----------------------------------------------------------------------- *)
(* Variant: the Filter Table entry is left in place. *)
active_generation_table_delete_at_only(s, line_addr) ==
    LET table_index == get_table_index(line_addr)
        c == table_check(s, "at", table_index)
    IN  IF c.found
        THEN table_invalidate(
                 pattern_history_table_insert(c.s, table_index, c.data, line_addr),
                 "at", table_index)
        ELSE c.s

(* Variant: the Accumulation Table entry is invalidated before the        *)
(* Pattern History Table is written.                                       *)
active_generation_table_delete_invalidate_first(s, line_addr) ==
    LET table_index == get_table_index(line_addr)
        c  == table_check(s, "at", table_index)
        s1 == IF c.found
              THEN pattern_history_table_insert(
                       table_invalidate(c.s, "at", table_index),
                       table_index, c.data, line_addr)
              ELSE c.s
        f  == filter_table_check(s1, table_index)
    IN  IF f.flag THEN table_invalidate(f.s, "ft", table_index) ELSE f.s

(* Variant: a Filter Table entry that is closed is written to the Pattern  *)
(* History Table as well.                                                  *)
active_generation_table_delete_filter_recorded(s, line_addr) ==
    LET table_index == get_table_index(line_addr)
        c  == table_check(s, "at", table_index)
        s1 == IF c.found
              THEN table_invalidate(
                       pattern_history_table_insert(c.s, table_index, c.data, line_addr),
                       "at", table_index)
              ELSE c.s
        f  == table_check(s1, "ft", table_index)
    IN  IF f.found
        THEN table_invalidate(
                 pattern_history_table_insert(f.s, table_index, f.data, line_addr),
                 "ft", table_index)
        ELSE f.s

active_generation_table_delete(s, line_addr) ==
    LET table_index == get_table_index(line_addr)
        c  == table_check(s, "at", table_index)
        s1 == IF c.found
              THEN table_invalidate(
                       pattern_history_table_insert(c.s, table_index, c.data, line_addr),
                       "at", table_index)
              ELSE c.s
        f  == filter_table_check(s1, table_index)
    IN  IF f.flag THEN table_invalidate(f.s, "ft", table_index) ELSE f.s

(* ----------------------------------------------------------------------- *)
(* sms_dcache_insert                                                       *)
(* ----------------------------------------------------------------------- *)
(* Variant: the generation is closed whether or not a line was replaced. *)
sms_dcache_insert_unguarded(s, line_addr, repl_line_addr) ==
    LET c == active_generation_table_check(s, line_addr)
    IN  IF c.flag THEN active_generation_table_delete(c.s, line_addr) ELSE c.s

(* Variant: the region of the replaced line is looked up and closed. *)
sms_dcache_insert_replaced(s, line_addr, repl_line_addr) ==
    IF repl_line_addr = 0
    THEN s
    ELSE LET c == active_generation_table_check(s, repl_line_addr)
         IN  IF c.flag THEN active_generation_table_delete(c.s, repl_line_addr) ELSE c.s

sms_dcache_insert(s, line_addr, repl_line_addr) ==
    LET s0 == [ s EXCEPT !.ev.notified = Append(@, [ line |-> line_addr,
                                                     repl |-> repl_line_addr ]) ]
    IN  IF repl_line_addr = 0
        THEN s0
        ELSE LET c == active_generation_table_check(s0, line_addr)
             IN  IF c.flag THEN active_generation_table_delete(c.s, line_addr) ELSE c.s

(* ----------------------------------------------------------------------- *)
(* Filter Table and Accumulation Table                                     *)
(* ----------------------------------------------------------------------- *)
(* Variant: the entry is allocated in the Accumulation Table. *)
filter_table_insert_wrong_table(s, table_index, line_addr_access_pattern, line_addr) ==
    table_insert(s, "at", table_index, line_addr_access_pattern, line_addr).s

filter_table_insert(s, table_index, line_addr_access_pattern, line_addr) ==
    CHOOSE result \in
      { LET flag == r.ret_val
        IN  [ r.s EXCEPT
                !.ev.counted = Append(@, [ table |-> "ft", flag |-> flag,
                                           event |-> IF flag = 0 THEN "same"
                                                     ELSE IF flag = 1 THEN "different"
                                                     ELSE "none" ]) ]
        : r \in { table_insert([s EXCEPT !.ev.ft_insert = @ + 1],
                               "ft", table_index, line_addr_access_pattern, line_addr) } } : TRUE

(* Variant: the pattern of the Filter Table entry is not merged in. *)
accumulation_table_insert_unmerged(s, table_index, line_addr_access_pattern, memory_region_access_pattern, line_addr) ==
    table_insert(s, "at", table_index, line_addr_access_pattern, line_addr).s

(* Variant: the pattern of the entry that is replaced is written to the   *)
(* Pattern History Table.                                                  *)
accumulation_table_insert_writeback(s, table_index, line_addr_access_pattern, memory_region_access_pattern, line_addr) ==
    LET r == table_insert(s, "at", table_index,
                          BitOr(line_addr_access_pattern, memory_region_access_pattern),
                          line_addr)
    IN  IF r.evicted = {}
        THEN r.s
        ELSE LET e == CHOOSE x \in r.evicted : TRUE
             IN  pattern_history_table_insert(r.s, e.base, e.data, e.base)

accumulation_table_insert(s, table_index, line_addr_access_pattern, memory_region_access_pattern, line_addr) ==
    CHOOSE result \in
      { LET flag == r.ret_val
        IN  [ r.s EXCEPT
                !.ev.counted = Append(@, [ table |-> "at", flag |-> flag,
                                           event |-> IF flag = 0 THEN "different"
                                                     ELSE IF flag = 1 THEN "same"
                                                     ELSE "none" ]) ]
        : r \in { table_insert(s, "at", table_index,
                               BitOr(line_addr_access_pattern, memory_region_access_pattern),
                               line_addr) } } : TRUE

(* Variant: the entry is transferred whether or not the line is a new one. *)
filter_table_update_always(s, table_index, line_addr_access_pattern, line_addr) ==
    LET c == table_check(s, "ft", table_index)
    IN  accumulation_table_insert([c.s EXCEPT !.ev.promoted = TRUE], table_index,
                                  line_addr_access_pattern, c.data, line_addr)

filter_table_update(s, table_index, line_addr_access_pattern, line_addr) ==
    LET c == table_check(s, "ft", table_index)
        memory_region_access_pattern == c.data
    IN  IF BitOr(line_addr_access_pattern, memory_region_access_pattern)
              # memory_region_access_pattern
        THEN accumulation_table_insert([c.s EXCEPT !.ev.promoted = TRUE], table_index,
                                       line_addr_access_pattern,
                                       memory_region_access_pattern, line_addr)
        ELSE c.s

filter_table_access(s, line_addr) ==
    LET line_addr_access_pattern == line_address_access_pattern(line_addr)
        table_index == get_table_index(line_addr)
        c == filter_table_check(s, table_index)
    IN  IF ~c.flag
        THEN filter_table_insert(c.s, table_index, line_addr_access_pattern, line_addr)
        ELSE filter_table_update(c.s, table_index, line_addr_access_pattern, line_addr)

(* Variant: the stored pattern is overwritten by the bit of the line. *)
accumulation_table_access_overwrite(s, line_addr) ==
    LET p == line_address_access_pattern(line_addr)
        table_index == get_table_index(line_addr)
        a == accumulation_table_check(s, table_index)
    IN  IF ~a.flag
        THEN filter_table_access(a.s, line_addr)
        ELSE LET c == table_check(a.s, "at", table_index)
             IN  IF c.found /\ p # c.data
                 THEN table_insert(table_invalidate([c.s EXCEPT !.ev.updated = TRUE],
                                                    "at", table_index),
                                   "at", table_index, p, line_addr).s
                 ELSE c.s

(* Variant: the entry is allocated again without being invalidated first. *)
accumulation_table_access_no_invalidate(s, line_addr) ==
    LET p == line_address_access_pattern(line_addr)
        table_index == get_table_index(line_addr)
        a == accumulation_table_check(s, table_index)
    IN  IF ~a.flag
        THEN filter_table_access(a.s, line_addr)
        ELSE LET c == table_check(a.s, "at", table_index)
                 line_addr_access_pattern == BitOr(p, c.data)
             IN  IF c.found /\ line_addr_access_pattern # c.data
                 THEN table_insert([c.s EXCEPT !.ev.updated = TRUE],
                                   "at", table_index, line_addr_access_pattern, line_addr).s
                 ELSE c.s

accumulation_table_access(s, line_addr) ==
    LET p == line_address_access_pattern(line_addr)
        table_index == get_table_index(line_addr)
        a == accumulation_table_check(s, table_index)
    IN  IF ~a.flag
        THEN filter_table_access(a.s, line_addr)
        ELSE LET c == table_check(a.s, "at", table_index)
                 stored_memory_region_access_pattern == c.data
                 line_addr_access_pattern == BitOr(p, stored_memory_region_access_pattern)
             IN  IF c.found /\ line_addr_access_pattern # stored_memory_region_access_pattern
                 THEN table_insert(table_invalidate([c.s EXCEPT !.ev.updated = TRUE],
                                                    "at", table_index),
                                   "at", table_index, line_addr_access_pattern, line_addr).s
                 ELSE c.s

(* ----------------------------------------------------------------------- *)
(* Streaming the predicted blocks to the data cache                        *)
(* ----------------------------------------------------------------------- *)

(* Steps 1 to 3: one prediction register per set bit of the pattern, in    *)
(* ascending bit order, at base + i * line size.                           *)
RECURSIVE PredictionRegisters(_, _, _)
PredictionRegisters(set_merged_access_pattern, base_address_of_region, i) ==
    IF i >= PatternBits
    THEN << >>
    ELSE (IF Bit(set_merged_access_pattern, i)
          THEN << base_address_of_region + i * DcacheLineSize >>
          ELSE << >>)
         \o PredictionRegisters(set_merged_access_pattern, base_address_of_region, i + 1)

(* The line the data cache may report as replaced by an install: none (0)  *)
(* while it has room, else one of the lines it holds.                      *)
Victims(dc) == dc \cup (IF Cardinality(dc) < DcacheCap THEN {0} ELSE {})

(* Variant: sms_dcache_insert is told the region of the stream, not the    *)
(* line installed.                                                         *)
StreamOne_region_notified(s, table_index, reg) ==
    IF dcache_table_check(s, table_index)
    THEN { sms_dcache_insert(
               [ s EXCEPT
                   !.dc = (@ \ {repl_line_addr}) \cup { DcacheLine(reg) },
                   !.ev.installs = Append(@, [ line    |-> DcacheLine(reg),
                                               HW_prefetch |-> TRUE,
                                               present |-> DcacheLine(reg) \in s.dc,
                                               repl    |-> repl_line_addr,
                                               live    |-> Matching(s.ft, table_index) # {}
                                                           \/ Matching(s.at, table_index) # {} ]) ],
               table_index, repl_line_addr)
           : repl_line_addr \in Victims(s.dc) }
    ELSE { s }

(* Step 4 for one prediction register: when the data cache holds the line  *)
(* of table_index, the register's line is installed and sms_dcache_insert  *)
(* is called with the line and the line it replaced.                       *)
StreamOne(s, table_index, reg) ==
    IF dcache_table_check(s, table_index)
    THEN { sms_dcache_insert(
               [ s EXCEPT
                   !.dc = (@ \ {repl_line_addr}) \cup { DcacheLine(reg) },
                   !.ev.installs = Append(@, [ line    |-> DcacheLine(reg),
                                               HW_prefetch |-> TRUE,
                                               present |-> DcacheLine(reg) \in s.dc,
                                               repl    |-> repl_line_addr,
                                               live    |-> Matching(s.ft, table_index) # {}
                                                           \/ Matching(s.at, table_index) # {} ]) ],
               DcacheLine(reg), repl_line_addr)
           : repl_line_addr \in Victims(s.dc) }
    ELSE { s }

RECURSIVE StreamFrom(_, _, _)
StreamFrom(s, table_index, prediction_registers) ==
    IF prediction_registers = << >>
    THEN { s }
    ELSE UNION { StreamFrom(s1, table_index, Tail(prediction_registers))
                 : s1 \in StreamOne(s, table_index, Head(prediction_registers)) }

sms_stream_blocks_to_data_cache(s, table_index, set_merged_access_pattern, line_addr) ==
    LET base_address_of_region == line_addr - (line_addr % RegionSize)
    IN  StreamFrom(s, table_index,
                   PredictionRegisters(set_merged_access_pattern, base_address_of_region, 0))

(* ----------------------------------------------------------------------- *)
(* Pattern History Table: access                                           *)
(* ----------------------------------------------------------------------- *)
(* Variant: the merge loop stops one entry early. *)
RECURSIVE MergePatterns_short(_)
MergePatterns_short(entries) ==
    IF Cardinality(entries) <= 1
    THEN 0
    ELSE LET e == CHOOSE x \in entries : TRUE
         IN  BitOr(e.data, MergePatterns_short(entries \ {e}))

RECURSIVE MergePatterns(_)
MergePatterns(entries) ==
    IF entries = {}
    THEN 0
    ELSE LET e == CHOOSE x \in entries : TRUE
         IN  BitOr(e.data, MergePatterns(entries \ {e}))

(* Variant: the tag of the entries of the set is not compared. *)
pattern_history_table_access_anytag(s, line_addr) ==
    LET table_index == get_table_index(line_addr)
        used == { e \in s.pht : e.set = cache_index(line_addr).set }
        set_merged_access_pattern == MergePatterns(used)
        s1 == [ s EXCEPT
                  !.pht = (@ \ used) \cup { [e EXCEPT !.time = s.now] : e \in used },
                  !.ev.lookup = TRUE,
                  !.ev.pred = set_merged_access_pattern ]
    IN  IF used # {} /\ set_merged_access_pattern # 0
        THEN sms_stream_blocks_to_data_cache(s1, table_index, line_addr,
                                             set_merged_access_pattern)
        ELSE { s1 }

(* The caller passes line_addr fourth and the merged pattern fifth.        *)
pattern_history_table_access(s, line_addr) ==
    LET table_index == get_table_index(line_addr)
        used == Matching(s.pht, line_addr)
        set_merged_access_pattern == MergePatterns(used)
        s1 == [ s EXCEPT
                  !.pht = (@ \ used) \cup { [e EXCEPT !.time = s.now] : e \in used },
                  !.ev.lookup = TRUE,
                  !.ev.pred = set_merged_access_pattern ]
    IN  IF used # {} /\ set_merged_access_pattern # 0
        THEN sms_stream_blocks_to_data_cache(s1, table_index, line_addr,
                                             set_merged_access_pattern)
        ELSE { s1 }

(* ----------------------------------------------------------------------- *)
(* sms_dcache_access                                                       *)
(* ----------------------------------------------------------------------- *)
(* Variant: the Filter Table entry is allocated before the lookup and the *)
(* stream.                                                                 *)
sms_dcache_access_open_first(s, line_addr) ==
    LET c == active_generation_table_check(s, line_addr)
    IN  IF c.flag
        THEN { accumulation_table_access([c.s EXCEPT !.ev.agt = TRUE,
                                                     !.ev.agt_hit = @ + 1], line_addr) }
        ELSE pattern_history_table_access(
                 filter_table_access([c.s EXCEPT !.ev.agt_miss = @ + 1], line_addr),
                 line_addr)

sms_dcache_access(s, line_addr) ==
    LET c == active_generation_table_check(s, line_addr)
    IN  IF c.flag
        THEN { accumulation_table_access([c.s EXCEPT !.ev.agt = TRUE,
                                                     !.ev.agt_hit = @ + 1], line_addr) }
        ELSE { filter_table_access(s1, line_addr)
               : s1 \in pattern_history_table_access([c.s EXCEPT !.ev.agt_miss = @ + 1],
                                                      line_addr) }

(* ----------------------------------------------------------------------- *)
(* The host: calls of the two entry points, and the clock                  *)
(* ----------------------------------------------------------------------- *)
Begin(op, addr, repl, dc) ==
    [ ft |-> filter_table, at |-> accumulation_table, pht |-> pattern_history_table,
      dc |-> dc, now |-> sim_time, rec |-> rec, ev |-> NoEvent(op, addr, repl), gen |-> gen ]

RECURSIVE OrAll(_)
OrAll(patterns) ==
    IF patterns = {}
    THEN 0
    ELSE LET q == CHOOSE x \in patterns : TRUE
         IN  BitOr(q, OrAll(patterns \ {q}))

(* The regions whose generation the call closed: the region that           *)
(* sms_dcache_insert looked up, in a call of the host that reports a       *)
(* replaced line or in a call by the stream that does.                     *)
Closed(s) ==
    IF s.ev.op = "insert"
    THEN (IF s.ev.repl # 0 THEN { get_table_index(s.ev.addr) } ELSE {})
    ELSE { get_table_index(s.ev.installs[i].line) :
             i \in { j \in DOMAIN s.ev.installs : s.ev.installs[j].repl # 0 } }

(* The region whose generation the call opened: that of a trigger access.  *)
Opened(s) ==
    IF s.ev.op = "access" /\ s.ev.lookup THEN { get_table_index(s.ev.addr) } ELSE {}

(* The history of the open generations at the end of a call: a trigger    *)
(* access opens one with the bit of its line, and the patterns the AT      *)
(* holds are added to those it has held.                                   *)
Settle(s) ==
    LET kept == { x \in s.gen : x.key \notin (Closed(s) \cup Opened(s)) }
        open == kept \cup { [ key |-> K, pat |-> 0,
                              trig |-> line_address_access_pattern(s.ev.addr) ]
                            : K \in Opened(s) }
    IN  [ s EXCEPT !.gen =
            { [ key  |-> e.base,
                pat  |-> BitOr(e.data, OrAll({ x.pat : x \in { y \in open : y.key = e.base } })),
                trig |-> OrAll({ x.trig : x \in { y \in open : y.key = e.base } }) ]
              : e \in s.at }
            \cup { x \in open : Matching(s.at, x.key) = {} } ]

Commit(s) ==
    /\ gen' = Settle(s).gen
    /\ filter_table' = s.ft
    /\ accumulation_table' = s.at
    /\ pattern_history_table' = s.pht
    /\ dcache' = s.dc
    /\ rec' = s.rec
    /\ ev' = s.ev
    /\ calls' = calls + 1
    /\ UNCHANGED sim_time

Init ==
    /\ filter_table = {}
    /\ accumulation_table = {}
    /\ pattern_history_table = {}
    /\ dcache \in { dc \in SUBSET HostLines : Cardinality(dc) <= DcacheCap }
    /\ sim_time = 0
    /\ rec = {}
    /\ ev = NoEvent("init", 0, 0)
    /\ calls = 0
    /\ gen = {}

(* A data cache access to line_addr. *)
DcacheAccess ==
    \E line_addr \in Addrs :
        /\ calls < MaxCalls
        /\ \E s \in sms_dcache_access(Begin("access", line_addr, 0, dcache), line_addr) :
            Commit(s)

(* The data cache fills line_addr, replacing repl_line_addr (a line it     *)
(* holds, or 0: nothing), and reports it.                                  *)
DcacheInsert ==
    \E line_addr \in DcacheLines, repl_line_addr \in dcache \cup {0} :
        LET dc == (dcache \ {repl_line_addr}) \cup {line_addr}
        IN  /\ calls < MaxCalls
            /\ Cardinality(dc) <= DcacheCap
            /\ Commit(sms_dcache_insert(Begin("insert", line_addr, repl_line_addr, dc),
                                        line_addr, repl_line_addr))

(* The simulator advances its clock. *)
Tick ==
    /\ sim_time < MaxTime
    /\ sim_time' = sim_time + 1
    /\ ev' = NoEvent("tick", 0, 0)
    /\ UNCHANGED << filter_table, accumulation_table, pattern_history_table, dcache, rec, calls, gen >>

Next == DcacheAccess \/ DcacheInsert \/ Tick

Spec == Init /\ [][Next]_vars

(* ----------------------------------------------------------------------- *)
(* States the program is in after a run of calls from construction         *)
(* ----------------------------------------------------------------------- *)

(* The state after construction, the data cache holding one line of a      *)
(* region the program does not access.                                     *)
Cold ==
    [ ft |-> {}, at |-> {}, pht |-> {}, dc |-> { 12 * DcacheLineSize }, now |-> 0,
      rec |-> {}, ev |-> NoEvent("init", 0, 0), gen |-> {} ]

(* The states after one call of the host from state s: an access, or the   *)
(* fill of a line that replaces another line the data cache holds.         *)
Step(s, c) ==
    IF c.op = "access"
    THEN { Settle(t) : t \in sms_dcache_access(
                                 [s EXCEPT !.ev = NoEvent("access", c.addr, 0)], c.addr) }
    ELSE { Settle(sms_dcache_insert(
                      [s EXCEPT !.dc = (@ \ {repl_line_addr}) \cup {c.addr},
                                !.ev = NoEvent("insert", c.addr, repl_line_addr)],
                      c.addr, repl_line_addr))
           : repl_line_addr \in s.dc \ {c.addr} }

RECURSIVE RunFrom(_, _)
RunFrom(states, run) ==
    IF run = << >>
    THEN states
    ELSE RunFrom(UNION { Step(s, Head(run)) : s \in states }, Tail(run))

(* The variables hold the state s, with spent calls of the budget used.    *)
Resume(s, spent) ==
    /\ filter_table = s.ft
    /\ accumulation_table = s.at
    /\ pattern_history_table = s.pht
    /\ dcache = s.dc
    /\ sim_time = s.now
    /\ rec = s.rec
    /\ ev = NoEvent("init", 0, 0)
    /\ gen = s.gen
    /\ calls = spent

(* Histories: up to MaxHistory generations, each of a region of            *)
(* RegionBases; the n-th accesses the first line and line n of its region  *)
(* and is closed by the fill of line n.                                    *)
MaxHistory == 3
HistorySpent == 2

Generation(K, n) ==
    << [ op |-> "access", addr |-> K ],
       [ op |-> "access", addr |-> K + n * DcacheLineSize ],
       [ op |-> "insert", addr |-> K + n * DcacheLineSize ] >>

RECURSIVE HistoryStates(_)
HistoryStates(n) ==
    IF n = 0
    THEN { Cold }
    ELSE UNION { RunFrom({s}, Generation(K, n)) : s \in HistoryStates(n - 1), K \in RegionBases }

InitHistory ==
    \E n \in 0 .. MaxHistory : \E s \in HistoryStates(n) : Resume(s, HistorySpent)

SpecHistory == InitHistory /\ [][Next]_vars

(* Full sets: Assoc regions of one table set other than the first region   *)
(* are each accessed at their second line, in one order, and then at their *)
(* third line, in another order.                                           *)
MaxRotation == 1
FullSpent == 1

(* The regions of the table set of the first region, after the first.     *)
FullBase(k) == FirstRegion + (k + 1) * (NumSets * RegionSize)

Touch(line, rotation) ==
    [ k \in 1 .. Assoc |->
        [ op |-> "access", addr |-> FullBase((k - 1 + rotation) % Assoc) + line * DcacheLineSize ] ]

FullStates ==
    UNION { RunFrom({Cold}, Touch(1, i) \o Touch(2, j)) : i, j \in 0 .. MaxRotation }

InitFull == \E s \in FullStates : Resume(s, FullSpent)

SpecFull == InitFull /\ [][Next]_vars

(* ----------------------------------------------------------------------- *)
(* States with one recorded generation of the first region, and accesses   *)
(* to one more line of that region than Addrs has                          *)
(* ----------------------------------------------------------------------- *)
StreamSpent == 1

StreamAddrs == { FirstRegion + l * DcacheLineSize : l \in 0 .. NumLines }

InitStream ==
    \E s \in RunFrom({Cold}, Generation(FirstRegion, 1)) : Resume(s, StreamSpent)

(* A data cache access to a line of the first region. *)
StreamAccess ==
    \E line_addr \in StreamAddrs :
        /\ calls < MaxCalls
        /\ \E s \in sms_dcache_access(Begin("access", line_addr, 0, dcache), line_addr) :
            Commit(s)

NextStream == StreamAccess \/ DcacheInsert \/ Tick

SpecStream == InitStream /\ [][NextStream]_vars

(* ----------------------------------------------------------------------- *)
(* The helper functions on their own: the pattern of an address, its       *)
(* region base, and the expansion of a pattern into prediction registers   *)
(* ----------------------------------------------------------------------- *)
CodecRegions == 3
CodecBlocks == 2
CodecOffsets == 2

(* Addresses of CodecRegions consecutive regions: the first CodecBlocks    *)
(* lines of a region and one of its last lines, at CodecOffsets byte       *)
(* offsets of the line and at its last byte.                               *)
CodecAddrs ==
    { r * RegionSize + b * DcacheLineSize + o :
        r \in 1 .. CodecRegions,
        b \in 0 .. (CodecBlocks - 1) \cup { (RegionSize \div DcacheLineSize) - 3 },
        o \in { 8 * k : k \in 0 .. (CodecOffsets - 1) } \cup { DcacheLineSize - 1 } }

(* line_address_access_pattern and get_table_index applied to an address,  *)
(* steps 1 to 3 of sms_stream_blocks_to_data_cache applied to the result,  *)
(* and line_address_access_pattern applied to a second address; once, on   *)
(* the state after construction.                                           *)
CodecApply ==
    \E A \in CodecAddrs, B \in CodecAddrs :
        /\ ev.op = "init"
        /\ ev' = [ op            |-> "codec",
                   addr          |-> A,
                   other         |-> B,
                   pattern       |-> line_address_access_pattern(A),
                   other_pattern |-> line_address_access_pattern(B),
                   lines         |-> PredictionRegisters(line_address_access_pattern(A),
                                                         get_table_index(A), 0) ]
        /\ UNCHANGED << filter_table, accumulation_table, pattern_history_table,
                        dcache, sim_time, rec, calls, gen >>

(* The line sizes a data cache is configured with here: the default, its   *)
(* double, a quarter of it, and one larger than a region.                  *)
CodecLineSizes == { DcacheLineSize, 2 * DcacheLineSize, DcacheLineSize \div 4, 2 * RegionSize }

(* line_address_access_pattern applied to an address under a data cache of *)
(* one of these line sizes; once, on the state after construction.         *)
CodecPattern ==
    \E A \in CodecAddrs, cache_line_size \in CodecLineSizes :
      \E outcome \in line_address_access_pattern_at(A, cache_line_size) :
        /\ ev.op = "init"
        /\ ev' = [ op         |-> "pattern",
                   addr       |-> A,
                   line_size  |-> cache_line_size,
                   bits       |-> outcome.bits,
                   over_limit |-> outcome.over_limit,
                   shift      |-> outcome.shift ]
        /\ UNCHANGED << filter_table, accumulation_table, pattern_history_table,
                        dcache, sim_time, rec, calls, gen >>

(* The line sizes sms_init is called with: the default and a quarter of    *)
(* it, for which a region has more lines than a pattern has bits.          *)
InitLineSizes == { DcacheLineSize, DcacheLineSize \div 4 }

(* sms_init: the three tables are allocated with the fixed geometry and    *)
(* the instance is returned; no parameter of the data cache is read.       *)
sms_init(cache_line_size) ==
    [ started     |-> TRUE,
      line_size   |-> cache_line_size,
      region_size |-> RegionSize,
      filter_table |-> {}, accumulation_table |-> {}, pattern_history_table |-> {} ]

(* sms_init called for a data cache of one of these line sizes; once.      *)
CodecInit ==
    \E cache_line_size \in InitLineSizes :
        /\ ev.op = "init"
        /\ ev' = [ op        |-> "sms_init",
                   line_size |-> cache_line_size,
                   started   |-> sms_init(cache_line_size).started,
                   blocks    |-> sms_init(cache_line_size).region_size \div cache_line_size ]
        /\ UNCHANGED << filter_table, accumulation_table, pattern_history_table,
                        dcache, sim_time, rec, calls, gen >>

CodecNext == CodecApply \/ CodecPattern \/ CodecInit

SpecCodec == Init /\ [][CodecNext]_vars

(* ======================================================================= *)
(* Properties                                                              *)
(* ======================================================================= *)

(* The region key K has a valid entry in the table. *)
Holds(cache, K) == Matching(cache, K) # {}

(* The patterns the table stores for the region key K. *)
Patterns(cache, K) == { e.data : e \in Matching(cache, K) }

(* The valid entries of a table without their recency. *)
Stored(cache) ==
    { [ set |-> e.set, way |-> e.way, tag |-> e.tag, base |-> e.base, data |-> e.data ]
      : e \in cache }

(* The lines the stream installed during the last call. *)
Installed == { ev.installs[i].line : i \in DOMAIN ev.installs }

(* C1: after every call, no region key has a valid entry in both the       *)
(* Filter Table and the Accumulation Table.                                *)
C1_Disjoint ==
    \A e \in filter_table : ~Holds(accumulation_table, e.base)

(* C2: sms_dcache_insert with a non-zero evicted address E whose region    *)
(* key is in the AT with pattern P leaves the AT without that key and the  *)
(* PHT with an entry of that key holding P.                                *)
C2_CloseTransfersEvicted ==
    [][ LET K_ev == get_table_index(ev'.repl)
        IN  (/\ calls' = calls + 1
             /\ ev'.op = "insert"
             /\ ev'.repl # 0
             /\ Holds(accumulation_table, K_ev))
            => /\ ~Holds(accumulation_table', K_ev)
               /\ \A P \in Patterns(accumulation_table, K_ev) :
                      P \in Patterns(pattern_history_table', K_ev) ]_vars

(* C3: sms_dcache_insert with a non-zero evicted address of another region *)
(* than the inserted line's leaves the FT and AT entries of every region   *)
(* but the evicted line's as they were and records no PHT pattern for them. *)
C3_CloseOnlyEvicted ==
    [][ (/\ calls' = calls + 1
         /\ ev'.op = "insert"
         /\ ev'.repl # 0
         /\ get_table_index(ev'.addr) # get_table_index(ev'.repl))
        => \A K \in RegionBases \ { get_table_index(ev'.repl) } :
               /\ Patterns(filter_table', K) = Patterns(filter_table, K)
               /\ Patterns(accumulation_table', K) = Patterns(accumulation_table, K)
               /\ \A i \in DOMAIN ev'.recorded : ev'.recorded[i].key # K ]_vars

(* C4: on a trigger access to A whose PHT patterns merge to P_merged, the  *)
(* lines the stream installs are exactly region_base(A) + i * L for the    *)
(* set bits i of P_merged.                                                 *)
C4_StreamSet ==
    (ev.op = "access" /\ ev.lookup /\ ev.pred # 0)
    => Installed = { get_table_index(ev.addr) + i * DcacheLineSize : i \in BitsOf(ev.pred) }

(* C5: the stream never installs a line the data cache already holds, nor *)
(* the line of the triggering access.                                      *)
C5_NoRedundantInstall ==
    ev.op = "access"
    => \A i \in DOMAIN ev.installs :
           /\ ~ev.installs[i].present
           /\ ev.installs[i].line # DcacheLine(ev.addr)

(* C6: an access to a line of region K whose bit p is not in the pattern q *)
(* that the FT holds for K, K not being in the AT, leaves the AT holding K *)
(* with the pattern p | q.                                                 *)
C6_Promotion ==
    [][ LET K == get_table_index(ev'.addr)
            p == line_address_access_pattern(ev'.addr)
        IN  \A q \in Patterns(filter_table, K) :
                (/\ calls' = calls + 1
                 /\ ev'.op = "access"
                 /\ ~Holds(accumulation_table, K)
                 /\ BitOr(p, q) # q)
                => Patterns(accumulation_table', K) = { BitOr(p, q) } ]_vars

(* C6 witness: a call promoted a region, and the AT holds two bits for it. *)
C6_Witness ==
    /\ ev.op = "access"
    /\ ev.promoted
    /\ \E P \in Patterns(accumulation_table, get_table_index(ev.addr)) : PopCount(P) = 2

(* C7: when region K is live only in the FT and sms_dcache_insert reports  *)
(* the eviction of a line of K, the FT has no entry for K afterwards and   *)
(* the PHT contents are unchanged.                                         *)
C7_FilterOnlyClose ==
    [][ LET K == get_table_index(ev'.repl)
        IN  (/\ calls' = calls + 1
             /\ ev'.op = "insert"
             /\ ev'.repl # 0
             /\ Holds(filter_table, K)
             /\ ~Holds(accumulation_table, K))
            => /\ ~Holds(filter_table', K)
               /\ Stored(pattern_history_table') = Stored(pattern_history_table) ]_vars

(* C8: sms_dcache_insert with evicted address 0 leaves the valid entries   *)
(* of FT, AT and PHT, their patterns and their recency as they were.       *)
C8_NoEvictionNoChange ==
    [][ (calls' = calls + 1 /\ ev'.op = "insert" /\ ev'.repl = 0)
        => /\ filter_table' = filter_table
           /\ accumulation_table' = accumulation_table
           /\ pattern_history_table' = pattern_history_table ]_vars

(* C8 witness: an insert without eviction arrived for a line whose region  *)
(* is live in the AT.                                                      *)
C8_Witness ==
    /\ ev.op = "insert"
    /\ ev.repl = 0
    /\ Holds(accumulation_table, get_table_index(ev.addr))

(* C9: a trigger access to A whose region key K has no PHT entry installs  *)
(* nothing, leaves the FT with exactly one entry for K that holds only the *)
(* bit of A's line, and leaves the AT and the PHT as they were.            *)
C9_ColdTrigger ==
    [][ LET K == get_table_index(ev'.addr)
        IN  (/\ calls' = calls + 1
             /\ ev'.op = "access"
             /\ ~Holds(filter_table, K)
             /\ ~Holds(accumulation_table, K)
             /\ ~Holds(pattern_history_table, K))
            => /\ ev'.installs = << >>
               /\ Cardinality(Matching(filter_table', K)) = 1
               /\ \A P \in Patterns(filter_table', K) :
                      BitsOf(P) = { (ev'.addr % RegionSize) \div DcacheLineSize }
               /\ accumulation_table' = accumulation_table
               /\ pattern_history_table' = pattern_history_table ]_vars

(* C9 witness: a trigger access missed the PHT while the PHT held the      *)
(* history of another region, and opened a generation.                     *)
C9_Witness ==
    /\ ev.op = "access"
    /\ ev.lookup
    /\ ~Holds(pattern_history_table, get_table_index(ev.addr))
    /\ pattern_history_table # {}
    /\ Holds(filter_table, get_table_index(ev.addr))

(* C10: when a generation of K closed with pattern P and no PHT entry of K *)
(* has been replaced since, the merged pattern the next trigger access on  *)
(* K computes contains P.                                                  *)
C10_PredictionCoversRecord ==
    [][ \A x \in rec :
            (/\ calls' = calls + 1
             /\ ev'.op = "access"
             /\ ev'.lookup
             /\ get_table_index(ev'.addr) = x.key)
            => BitOr(ev'.pred, x.pat) = ev'.pred ]_vars

(* C10 witness: a trigger access looked up a region whose pattern had been *)
(* transferred to the PHT by an earlier call.                              *)
C10_Witness ==
    /\ ev.op = "access"
    /\ ev.lookup
    /\ ev.recorded = << >>
    /\ \E x \in rec : x.key = get_table_index(ev.addr) /\ x.pat # 0 /\ ev.pred # 0

(* C13: in every reachable state, the pattern of every valid Filter Table  *)
(* entry has exactly one bit set.                                          *)
C13_FilterSingleBit ==
    \A e \in filter_table : PopCount(e.data) = 1

(* C13 witness: the FT holds an entry opened by an access to the third     *)
(* line of its region.                                                     *)
C13_Witness ==
    \E e \in filter_table : BitsOf(e.data) = {2}

(* C14: in every reachable state, every valid Accumulation Table entry and *)
(* every valid Pattern History Table entry has a non-zero pattern.         *)
C14_NonZeroPatterns ==
    \A e \in accumulation_table \cup pattern_history_table : e.data # 0

(* C14 witness: the last call transferred the pattern of an AT entry to    *)
(* the PHT, which holds it.                                                *)
C14_Witness ==
    /\ ev.recorded # << >>
    /\ \E e \in pattern_history_table : PopCount(e.data) >= 2

(* C15: a trigger access to region K (K in neither FT nor AT) returns with *)
(* exactly one FT entry for K and none in the AT; it transfers nothing     *)
(* from the FT to the AT.                                                  *)
C15_NoSelfPromotion ==
    [][ LET K == get_table_index(ev'.addr)
        IN  (/\ calls' = calls + 1
             /\ ev'.op = "access"
             /\ ~Holds(filter_table, K)
             /\ ~Holds(accumulation_table, K))
            => /\ Cardinality(Matching(filter_table', K)) = 1
               /\ ~Holds(accumulation_table', K)
               /\ ~ev'.promoted ]_vars

(* C15 witness: a trigger access streamed lines to the data cache and      *)
(* opened the FT entry of its region.                                      *)
C15_Witness ==
    /\ ev.op = "access"
    /\ ev.lookup
    /\ ev.installs # << >>
    /\ Cardinality(Matching(filter_table, get_table_index(ev.addr))) = 1
    /\ ~Holds(accumulation_table, get_table_index(ev.addr))

(* C16: an access to a line with bit p of region K, while the AT holds K   *)
(* with pattern q, leaves the AT holding K with exactly q | p and leaves   *)
(* the entries and patterns of the FT and of the PHT as they were.         *)
C16_AccumulationHit ==
    [][ LET K == get_table_index(ev'.addr)
            p == line_address_access_pattern(ev'.addr)
        IN  \A q \in Patterns(accumulation_table, K) :
                (calls' = calls + 1 /\ ev'.op = "access")
                => /\ Patterns(accumulation_table', K) = { BitOr(q, p) }
                   /\ Stored(filter_table') = Stored(filter_table)
                   /\ Stored(pattern_history_table') = Stored(pattern_history_table) ]_vars

(* C16 witness: an access hit the AT and the pattern of its region grew to *)
(* three bits.                                                             *)
C16_Witness ==
    /\ ev.op = "access"
    /\ ev.agt
    /\ ~ev.promoted
    /\ \E P \in Patterns(accumulation_table, get_table_index(ev.addr)) : PopCount(P) = 3

(* C17: an access to region K, while the FT holds K with a pattern q that  *)
(* already has the bit p of the accessed line, leaves the FT pattern of K  *)
(* as it was, inserts nothing into the AT, looks up no PHT entry and       *)
(* installs no line.                                                       *)
C17_SameLineNoChange ==
    [][ LET K == get_table_index(ev'.addr)
            p == line_address_access_pattern(ev'.addr)
        IN  \A q \in Patterns(filter_table, K) :
                (calls' = calls + 1 /\ ev'.op = "access" /\ BitOr(p, q) = q)
                => /\ Patterns(filter_table', K) = Patterns(filter_table, K)
                   /\ Stored(accumulation_table') = Stored(accumulation_table)
                   /\ ~ev'.promoted
                   /\ ~ev'.lookup
                   /\ ev'.installs = << >> ]_vars

(* C17 witness: an access found its region in the FT only and transferred  *)
(* nothing: it was to the line the FT entry records.                       *)
C17_Witness ==
    /\ ev.op = "access"
    /\ ev.agt
    /\ ~ev.promoted
    /\ Patterns(filter_table, get_table_index(ev.addr))
           = { line_address_access_pattern(ev.addr) }
    /\ ~Holds(accumulation_table, get_table_index(ev.addr))

(* C18: a call of sms_dcache_insert that closes the generation of K (K in  *)
(* the FT, the AT or both) leaves K in neither table; K stays in neither   *)
(* until it is accessed; and the access that then arrives for K is handled *)
(* as a trigger access that opens an FT entry holding only its own bit.    *)
C18_ClosedThenTrigger ==
    [][ calls' = calls + 1 =>
        LET K == get_table_index(ev'.addr)
            p == line_address_access_pattern(ev'.addr)
        IN  /\ (/\ ev'.op = "insert"
                /\ ev'.repl # 0
                /\ (Holds(filter_table, K) \/ Holds(accumulation_table, K)))
               => (~Holds(filter_table', K) /\ ~Holds(accumulation_table', K))
            /\ \A J \in RegionBases :
                   (/\ ~Holds(filter_table, J)
                    /\ ~Holds(accumulation_table, J)
                    /\ ~(ev'.op = "access" /\ K = J))
                   => (~Holds(filter_table', J) /\ ~Holds(accumulation_table', J))
            /\ (/\ ev'.op = "access"
                /\ ~Holds(filter_table, K)
                /\ ~Holds(accumulation_table, K))
               => /\ ev'.lookup
                  /\ ~ev'.agt
                  /\ Patterns(filter_table', K) = {p}
                  /\ ~Holds(accumulation_table', K) ]_vars

(* C18 witness: a trigger access arrived for a region whose generation had *)
(* been closed with a pattern that lacks the bit of the accessed line, and *)
(* the FT entry it opened holds that bit only.                             *)
C18_Witness ==
    /\ ev.op = "access"
    /\ ev.lookup
    /\ \E x \in rec :
           /\ x.key = get_table_index(ev.addr)
           /\ BitOr(x.pat, line_address_access_pattern(ev.addr)) # x.pat
    /\ Patterns(filter_table, get_table_index(ev.addr))
           = { line_address_access_pattern(ev.addr) }

(* C19: for every address A, the expansion of the pattern of A from the    *)
(* region base of A is exactly one line address, the address of the data   *)
(* cache line of A.                                                        *)
C19_CodecRoundTrip ==
    ev.op = "codec" => ev.lines = << ev.addr - (ev.addr % DcacheLineSize) >>

(* C19 witness: the functions were applied to an address in the middle of  *)
(* a line that is neither the first line of its region nor in the first    *)
(* region.                                                                 *)
C19_Witness ==
    /\ ev.op = "codec"
    /\ ev.addr % DcacheLineSize # 0
    /\ (ev.addr % RegionSize) \div DcacheLineSize > 1
    /\ ev.addr \div RegionSize > 1
    /\ Len(ev.lines) = 1

(* C20 as stated: for all addresses A and B, pattern_of(A) | pattern_of(B) *)
(* equals pattern_of(B) if and only if A and B lie in the same data cache  *)
(* line.                                                                   *)
C20_SamePatternSameLine ==
    ev.op = "codec"
    => ((BitOr(ev.pattern, ev.other_pattern) = ev.other_pattern)
        <=> (ev.addr \div DcacheLineSize = ev.other \div DcacheLineSize))

(* C20 amended: for all addresses A and B of the same region,              *)
(* pattern_of(A) | pattern_of(B) equals pattern_of(B) if and only if A and *)
(* B lie in the same data cache line.                                      *)
C20_SamePatternSameLineInRegion ==
    (ev.op = "codec" /\ ev.addr \div RegionSize = ev.other \div RegionSize)
    => ((BitOr(ev.pattern, ev.other_pattern) = ev.other_pattern)
        <=> (ev.addr \div DcacheLineSize = ev.other \div DcacheLineSize))

(* C20 witness: two different addresses of one line, whose patterns are    *)
(* equal.                                                                  *)
C20_Witness ==
    /\ ev.op = "codec"
    /\ ev.addr # ev.other
    /\ ev.addr \div DcacheLineSize = ev.other \div DcacheLineSize
    /\ BitOr(ev.pattern, ev.other_pattern) = ev.other_pattern

(* C11: the prediction a trigger access for K computes has exactly the     *)
(* bits of the patterns of the valid PHT entries of K's set whose tag is   *)
(* K's tag; entries of the set with another tag contribute no bit; and     *)
(* when no valid entry is tagged K the prediction is empty and no line is  *)
(* installed.                                                              *)
C11_PredictionIsOrOfTagged ==
    [][ (calls' = calls + 1 /\ ev'.op = "access" /\ ev'.lookup)
        => LET ix == cache_index(ev'.addr)
               tagged == { e \in pattern_history_table : e.set = ix.set /\ e.tag = ix.tag }
           IN  /\ \A i \in 0 .. (PatternBits - 1) :
                      Bit(ev'.pred, i) <=> \E e \in tagged : Bit(e.data, i)
               /\ tagged = {} => (ev'.pred = 0 /\ ev'.installs = << >>) ]_vars

(* C11 witness: a trigger access computed its prediction from two PHT      *)
(* entries of its region with different patterns, while the set held an    *)
(* entry of another region with a bit that the prediction lacks.           *)
C11_Witness ==
    /\ ev.op = "access"
    /\ ev.lookup
    /\ \E e, f \in Matching(pattern_history_table, ev.addr) :
           /\ e.data # f.data
           /\ BitOr(e.data, f.data) = ev.pred
    /\ \E g \in pattern_history_table :
           /\ g.set = cache_index(ev.addr).set
           /\ g.tag # cache_index(ev.addr).tag
           /\ BitOr(ev.pred, g.data) # ev.pred

(* C12: while a generation of K is open, the pattern the AT holds for K    *)
(* contains every pattern the AT has held for K in this generation.        *)
C12_MonotoneAccumulation ==
    \A e \in accumulation_table :
        \A x \in gen : x.key = e.base => BitOr(e.data, x.pat) = e.data


(* C21: line_address_access_pattern(A) returns the pattern with exactly    *)
(* the bit of index (A & offset_mask) / line size when that index is below *)
(* B = region size / line size, without counting the overflow event; when  *)
(* the index is not below B it returns the pattern 0 and counts the event. *)
C21_PatternOrOverflow ==
    ev.op = "pattern" =>
        LET block_index == (ev.addr % RegionSize) \div ev.line_size
            B == RegionSize \div ev.line_size
        IN  /\ block_index < B  => ev.bits = { block_index } /\ ~ev.over_limit
            /\ block_index >= B => ev.bits = {} /\ ev.over_limit

(* C22: sms_init does not return an instance when a region has more than   *)
(* 64 lines of the data cache (or when the region size is not a power of   *)
(* two).                                                                   *)
C22_InitRefuses ==
    ev.op = "sms_init" => (ev.blocks > PatternBits => ~ev.started)


C24_StreamBeforeOpen ==
    [][ (calls' = calls + 1 /\ ev'.op = "access" /\ ev'.lookup) =>
          LET K == get_table_index(ev'.addr)
          IN  /\ ~Holds(filter_table, K) /\ ~Holds(accumulation_table, K)
              /\ \A i \in DOMAIN ev'.installs : ~ev'.installs[i].live
              /\ Patterns(filter_table', K) = { line_address_access_pattern(ev'.addr) }
              /\ ~Holds(accumulation_table', K) ]_vars

(* A trigger access whose stream called sms_dcache_insert with a replaced  *)
(* line, and whose FT entry is in place afterwards.                        *)
C24_Witness ==
    /\ ev.op = "access"
    /\ ev.lookup
    /\ \E i \in DOMAIN ev.installs : ev.installs[i].repl # 0 /\ ~ev.installs[i].live
    /\ Holds(filter_table, get_table_index(ev.addr))

(* C25: when an AT generation is closed, the PHT is written while the AT   *)
(* still holds the entry, with the pattern the AT held when the close      *)
(* began, and the AT entry is invalidated afterwards: the pattern is in    *)
(* the PHT when the call returns and the AT no longer holds the region.    *)
C25_TransferBeforeInvalidate ==
    [][ (calls' = calls + 1) =>
          \A i \in DOMAIN ev'.recorded :
              LET K == ev'.recorded[i].key
              IN  /\ ev'.recorded[i].held
                  /\ ev'.recorded[i].pat \in Patterns(accumulation_table, K)
                  /\ ev'.recorded[i].pat \in Patterns(pattern_history_table', K)
                  /\ ~Holds(accumulation_table', K) ]_vars

(* A close that transferred a pattern of two or more lines which the PHT   *)
(* holds and the AT no longer does.                                        *)
C25_Witness ==
    /\ ev.recorded # << >>
    /\ ev.recorded[1].held
    /\ PopCount(ev.recorded[1].pat) >= 2
    /\ ev.recorded[1].pat \in Patterns(pattern_history_table, ev.recorded[1].key)
    /\ ~Holds(accumulation_table, ev.recorded[1].key)
    /\ ~Holds(filter_table, ev.recorded[1].key)


(* C26: the valid entries of the PHT and their patterns change only when a *)
(* generation the AT holds is closed by sms_dcache_insert: a call that     *)
(* transfers nothing leaves them as they were, every transfer is of a      *)
(* region and a pattern the AT held, an access to a region that is in FT   *)
(* or AT (promotion, accumulation) leaves them as they were, and so does   *)
(* the close of a region only the FT holds.                                *)
C26_PatternHistoryOnlyOnClose ==
    [][ (calls' = calls + 1) =>
          /\ ev'.recorded = << >> =>
                Stored(pattern_history_table') = Stored(pattern_history_table)
          /\ \A i \in DOMAIN ev'.recorded :
                ev'.recorded[i].pat \in Patterns(accumulation_table, ev'.recorded[i].key)
          /\ (ev'.op = "access" /\ ev'.agt) =>
                Stored(pattern_history_table') = Stored(pattern_history_table)
          /\ (ev'.op = "insert" /\ ~Holds(accumulation_table, get_table_index(ev'.addr))) =>
                Stored(pattern_history_table') = Stored(pattern_history_table) ]_vars

(* A region with a pattern recorded in the PHT has been promoted to the AT *)
(* again with another pattern, and the PHT still holds the recorded one.   *)
C26_Witness ==
    /\ ev.op = "access"
    /\ ev.promoted
    /\ \E x \in rec :
          /\ x.key = get_table_index(ev.addr)
          /\ Patterns(pattern_history_table, x.key) = { x.pat }
          /\ Holds(accumulation_table, x.key)
          /\ x.pat \notin Patterns(accumulation_table, x.key)


(* C27: the only re-entry is sms_dcache_insert called by the stream of a   *)
(* trigger access, and the number of these nested calls in one trigger     *)
(* access is at most the number of set bits of the pattern streamed, the   *)
(* merged pattern of the PHT lookup.                                       *)
C27_NestedCallsBounded ==
    [][ (calls' = calls + 1 /\ ev'.op = "access") =>
          Len(ev'.installs) <= PopCount(ev'.pred) ]_vars


(* C28: every valid AT entry has, in its pattern, the bit of the line of   *)
(* the trigger access that opened the generation of its region.            *)
C28_TriggerBitKept ==
    \A e \in accumulation_table :
        \E x \in gen :
            /\ x.key = e.base
            /\ PopCount(x.trig) = 1
            /\ BitOr(e.data, x.trig) = e.data

(* An AT entry that was displaced and allocated again in the same          *)
(* generation (the AT has held lines for it that the entry no longer has)  *)
(* and has the trigger bit.                                                *)
C28_Witness ==
    \E e \in accumulation_table :
        \E x \in gen :
            /\ x.key = e.base
            /\ x.pat # e.data
            /\ PopCount(x.trig) = 1
            /\ BitOr(e.data, x.trig) = e.data


C30_DisplacedNotClosed ==
    [][ (calls' = calls + 1 /\ ev'.op = "access") =>
          \A J \in { e.base : e \in filter_table \cup accumulation_table } :
              (/\ J # get_table_index(ev'.addr)
               /\ J \notin Closed([ ev |-> ev' ])
               /\ \/ Holds(accumulation_table, J) /\ ~Holds(accumulation_table', J)
                  \/ Holds(filter_table, J) /\ ~Holds(filter_table', J)) =>
                  /\ \A i \in DOMAIN ev'.recorded : ev'.recorded[i].key # J
                  /\ Patterns(pattern_history_table', J) = Patterns(pattern_history_table, J)
                  /\ (Holds(accumulation_table, J) /\ ~Holds(accumulation_table', J)) =>
                        Patterns(filter_table', J) = Patterns(filter_table, J)
                  /\ (Holds(filter_table, J) /\ ~Holds(filter_table', J)) =>
                        Patterns(accumulation_table', J) = Patterns(accumulation_table, J) ]_vars

(* A promotion displaced the AT entry of a region whose generation is      *)
(* open: the AT has held lines for it, the FT still holds it, and the PHT  *)
(* has nothing for it.                                                     *)
C30_Witness ==
    /\ ev.op = "access"
    /\ ev.promoted
    /\ ev.recorded = << >>
    /\ \E x \in gen :
          /\ x.pat # 0
          /\ x.key # get_table_index(ev.addr)
          /\ ~Holds(accumulation_table, x.key)
          /\ Holds(filter_table, x.key)
          /\ ~Holds(pattern_history_table, x.key)


(* C31: the FT holds at most one valid entry for a region key and the AT   *)
(* holds at most one valid entry for a region key.                         *)
C31_OneEntryPerRegion ==
    /\ \A e \in filter_table : Cardinality(Matching(filter_table, e.base)) = 1
    /\ \A e \in accumulation_table : Cardinality(Matching(accumulation_table, e.base)) = 1

(* The AT entry of a region was invalidated and allocated again with one   *)
(* more line, while the FT holds the region too: one entry in each.        *)
C31_Witness ==
    /\ ev.op = "access"
    /\ ev.updated
    /\ Cardinality(Matching(accumulation_table, ev.addr)) = 1
    /\ Cardinality(Matching(filter_table, ev.addr)) = 1
    /\ \E e \in Matching(accumulation_table, ev.addr) : PopCount(e.data) >= 3

(* C32: every valid AT entry and every valid PHT entry has at least two    *)
(* bits set in its pattern.                                                *)
C32_TwoLinesAtLeast ==
    /\ \A e \in accumulation_table : PopCount(e.data) >= 2
    /\ \A e \in pattern_history_table : PopCount(e.data) >= 2

(* The PHT holds a recorded pattern, and a later generation of the same    *)
(* region is in the FT only, with the single bit of its trigger access.    *)
C32_Witness ==
    \E g \in pattern_history_table :
        /\ PopCount(g.data) >= 2
        /\ \E f \in Matching(filter_table, g.base) : PopCount(f.data) = 1
        /\ ~Holds(accumulation_table, g.base)
        /\ \E e \in accumulation_table : PopCount(e.data) >= 2


(* C33: table_insert returns "same pattern replaced" (1) exactly when it   *)
(* replaced a valid entry that stored the pattern inserted, "different     *)
(* pattern replaced" (0) exactly when it replaced a valid entry that       *)
(* stored another pattern, and "nothing replaced" (2) exactly when it      *)
(* replaced no valid entry.                                                *)
C33_InsertOutcome ==
    \A i \in DOMAIN ev.inserts :
        LET x == ev.inserts[i]
        IN  /\ x.ret_val = 1 <=> (x.evicted # {} /\ x.pattern \in x.evicted)
            /\ x.ret_val = 0 <=> (x.evicted # {} /\ x.pattern \notin x.evicted)
            /\ x.ret_val = 2 <=> x.evicted = {}

(* C34: each of the three insert functions counts its same-eviction event  *)
(* exactly when table_insert returned 1, its different-eviction event      *)
(* exactly when it returned 0, and its no-eviction event exactly when it   *)
(* returned 2.                                                             *)
C34_CountersFollowOutcome ==
    \A i \in DOMAIN ev.counted :
        LET x == ev.counted[i]
        IN  /\ x.event = "same" <=> x.flag = 1
            /\ x.event = "different" <=> x.flag = 0
            /\ x.event = "none" <=> x.flag = 2

(* C35: a call of sms_dcache_access counts exactly one of the AGT-hit and  *)
(* AGT-miss events, the miss exactly when the region is in neither FT nor  *)
(* AT; it counts one FT insert on a miss and none on a hit.                *)
C35_TriggerCounters ==
    [][ (calls' = calls + 1 /\ ev'.op = "access") =>
          LET K == get_table_index(ev'.addr)
          IN  /\ ev'.agt_hit + ev'.agt_miss = 1
              /\ ev'.agt_miss = 1 <=> (~Holds(filter_table, K) /\ ~Holds(accumulation_table, K))
              /\ ev'.ft_insert = ev'.agt_miss ]_vars

(* An access that found its region in the FT and transferred it to the AT  *)
(* counted a hit and no FT insert.                                         *)
C35_Witness ==
    /\ ev.op = "access"
    /\ ev.promoted
    /\ ev.agt_hit = 1
    /\ ev.agt_miss = 0
    /\ ev.ft_insert = 0

(* C36: every line the stream installs in the data cache is marked         *)
(* HW_prefetch, and for every install sms_dcache_insert is called, in      *)
(* order, with the installed line and the line it replaced (0 when none);  *)
(* the line installed last is in the data cache afterwards.                *)
C36_InstallsNotified ==
    ev.op = "access" =>
        /\ Len(ev.notified) = Len(ev.installs)
        /\ \A i \in DOMAIN ev.installs :
              /\ ev.installs[i].HW_prefetch
              /\ ev.notified[i] = [ line |-> ev.installs[i].line, repl |-> ev.installs[i].repl ]
        /\ ev.installs # << >> => ev.installs[Len(ev.installs)].line \in dcache

(* A stream whose install replaced a line of the data cache and told       *)
(* sms_dcache_insert the line installed and the line replaced.             *)
C36_Witness ==
    /\ ev.op = "access"
    /\ ev.installs # << >>
    /\ Len(ev.notified) = Len(ev.installs)
    /\ \E i \in DOMAIN ev.installs :
          /\ ev.installs[i].HW_prefetch
          /\ ev.installs[i].repl # 0
          /\ ev.notified[i].line = ev.installs[i].line
          /\ ev.notified[i].repl = ev.installs[i].repl


(* C37: the shift amount of 1ULL << block_index in                         *)
(* line_address_access_pattern is below 64 whenever the shift is executed, *)
(* for every address and every line size of the data cache.                *)
C37_ShiftBelowWidth ==
    (ev.op = "pattern" /\ ev.shift # -1) => ev.shift < PatternBits

(* C38: when the line size of the data cache divides the region size, the  *)
(* block index is below region size / line size, the overflow event is not *)
(* counted, and the pattern returned is not 0.                             *)
C38_NeverZero ==
    (ev.op = "pattern" /\ RegionSize % ev.line_size = 0) =>
        /\ (ev.addr % RegionSize) \div ev.line_size < RegionSize \div ev.line_size
        /\ ~ev.over_limit
        /\ ev.bits # {}

====
